---- MODULE Spec2Model ----
(***************************************************************************)
(* A model of plots/generate_lqg_plots.py: the thermodynamic functions of  *)
(* the quantum-corrected black hole, the constants derived from the        *)
(* Barbero-Immirzi parameter, and the linear run of the script that        *)
(* samples the functions over fixed grids, draws five figures and saves    *)
(* each of them.                                                           *)
(*                                                                         *)
(* Numbers.  The script computes in IEEE binary64 (numpy float64).  The    *)
(* model computes in a decimal floating-point format with a four-digit     *)
(* significand, an unbounded exponent, round-to-nearest, and the special   *)
(* values NaN and +/-Infinity with numpy's rules (x/0 = inf, inf-inf =     *)
(* NaN, every comparison with NaN false).  A number is the record          *)
(* [k, m, e]: k is "num", "inf" or "nan"; for a "num" the value is         *)
(* m * 10^e with m = 0 (and e = 0) or 1000 <= |m| <= 9999; for an "inf"    *)
(* m is the sign.  The representation is canonical, so = is value          *)
(* equality on numbers and infinities.                                     *)
(***************************************************************************)
EXTENDS Integers, Sequences, FiniteSets

----------------------------------------------------------------------------
(* Floating-point arithmetic                                               *)

NaN == [k |-> "nan", m |-> 0, e |-> 0]
Inf(s) == [k |-> "inf", m |-> s, e |-> 0]
Zero == [k |-> "num", m |-> 0, e |-> 0]

IsNaN(x) == x.k = "nan"
IsInf(x) == x.k = "inf"
IsNum(x) == x.k = "num"

Abs(n) == IF n < 0 THEN -n ELSE n
Sign(n) == IF n < 0 THEN -1 ELSE IF n > 0 THEN 1 ELSE 0

RECURSIVE Pow10(_)
Pow10(n) == IF n <= 0 THEN 1 ELSE 10 * Pow10(n - 1)

RECURSIVE Digits(_)
Digits(a) == IF a < 10 THEN 1 ELSE 1 + Digits(a \div 10)

\* The significand of every finite non-zero number has this many digits.
Precision == 4

\* Round the integer m * 10^e to Precision significant digits (half away
\* from zero) and return the canonical number.
Norm(m, e) ==
  LET a == Abs(m)
      n == Digits(a)
  IN  IF a = 0 THEN Zero
      ELSE IF n > Precision
        THEN LET d == n - Precision
                 p == Pow10(d)
                 q == (a + (p \div 2)) \div p
             IN  IF q = Pow10(Precision)
                   THEN [k |-> "num", m |-> Sign(m) * Pow10(Precision - 1), e |-> e + d + 1]
                   ELSE [k |-> "num", m |-> Sign(m) * q, e |-> e + d]
        ELSE LET d == Precision - n
             IN  [k |-> "num", m |-> m * Pow10(d), e |-> e - d]

\* An integer literal, and a decimal literal m * 10^e.
FromInt(n) == Norm(n, 0)
Dec(m, e) == Norm(m, e)

Fneg(x) == IF IsNaN(x) THEN NaN ELSE [x EXCEPT !.m = -x.m]
Fabs(x) == IF IsNaN(x) THEN NaN ELSE [x EXCEPT !.m = Abs(x.m)]

Fadd(x, y) ==
  IF IsNaN(x) \/ IsNaN(y) THEN NaN
  ELSE IF IsInf(x) /\ IsInf(y) THEN (IF x.m = y.m THEN x ELSE NaN)
  ELSE IF IsInf(x) THEN x
  ELSE IF IsInf(y) THEN y
  ELSE IF x.m = 0 THEN y
  ELSE IF y.m = 0 THEN x
  ELSE LET hi == IF x.e >= y.e THEN x ELSE y
           lo == IF x.e >= y.e THEN y ELSE x
           d  == hi.e - lo.e
       IN  IF d > Precision + 1 THEN hi
           ELSE Norm(hi.m * Pow10(d) + lo.m, lo.e)

Fsub(x, y) == Fadd(x, Fneg(y))

Fmul(x, y) ==
  IF IsNaN(x) \/ IsNaN(y) THEN NaN
  ELSE IF IsInf(x) \/ IsInf(y)
    THEN (IF x.m = 0 \/ y.m = 0 THEN NaN ELSE Inf(Sign(x.m) * Sign(y.m)))
  ELSE Norm(x.m * y.m, x.e + y.e)

Fdiv(x, y) ==
  IF IsNaN(x) \/ IsNaN(y) THEN NaN
  ELSE IF IsInf(x) THEN (IF IsInf(y) THEN NaN
                         ELSE Inf(x.m * (IF y.m < 0 THEN -1 ELSE 1)))
  ELSE IF IsInf(y) THEN Zero
  ELSE IF y.m = 0 THEN (IF x.m = 0 THEN NaN ELSE Inf(Sign(x.m)))
  ELSE LET q == (Abs(x.m) * Pow10(Precision + 1)) \div Abs(y.m)
       IN  Norm(Sign(x.m) * Sign(y.m) * q, x.e - y.e - (Precision + 1))

\* x ** n for a literal exponent n >= 1.
RECURSIVE Fpow(_, _)
Fpow(x, n) == IF n = 1 THEN x ELSE Fmul(Fpow(x, n - 1), x)

RECURSIVE ISqrtIn(_, _, _)
ISqrtIn(n, lo, hi) ==
  IF lo >= hi THEN lo
  ELSE LET mid == (lo + hi + 1) \div 2
       IN  IF mid * mid <= n THEN ISqrtIn(n, mid, hi) ELSE ISqrtIn(n, lo, mid - 1)

\* The integer nearest to the square root of n (n < 10^9).
ISqrt(n) ==
  LET s == ISqrtIn(n, 0, 31622)
  IN  IF n - s * s > s THEN s + 1 ELSE s

Fsqrt(x) ==
  IF IsNaN(x) THEN NaN
  ELSE IF x.m < 0 THEN NaN
  ELSE IF IsInf(x) THEN x
  ELSE IF x.m = 0 THEN Zero
  ELSE LET k == IF (x.e - Precision) % 2 = 0 THEN Precision ELSE Precision + 1
       IN  Norm(ISqrt(x.m * Pow10(k)), (x.e - k) \div 2)

\* Comparisons: false as soon as an operand is NaN.
Fgt(x, y) == /\ ~IsNaN(x) /\ ~IsNaN(y) /\ x # y /\ Fsub(x, y).m > 0
Flt(x, y) == Fgt(y, x)
Fge(x, y) == /\ ~IsNaN(x) /\ ~IsNaN(y) /\ (x = y \/ Fsub(x, y).m > 0)
Fle(x, y) == Fge(y, x)

----------------------------------------------------------------------------
(* Physical constants and parameters                                       *)

pi == Dec(3142, -3)

gamma_num == Dec(2375, -4)
alpha_num == Fmul(Fmul(Fmul(FromInt(16), Fsqrt(FromInt(3))), pi), Fpow(gamma_num, 3))
lambda_ads == Fdiv(FromInt(-3), Fmul(Fmul(FromInt(16), pi), Fpow(gamma_num, 3)))

r_plus_critical == Fmul(FromInt(2), Fsqrt(Fmul(FromInt(3), alpha_num)))
pressure_critical == Fdiv(FromInt(1), Fmul(Fmul(FromInt(24), pi), alpha_num))
volume_critical == Fmul(FromInt(4), Fsqrt(Fmul(FromInt(3), alpha_num)))
temperature_critical ==
  Fdiv(Fsqrt(FromInt(3)), Fmul(Fmul(FromInt(50), pi), Fsqrt(alpha_num)))

\* The value printed as "Critical ratio PcVc/Tc", and the two reference
\* ratios printed after it.
critical_ratio == Fdiv(Fmul(pressure_critical, volume_critical), temperature_critical)
classical_ratio == Fdiv(FromInt(3), FromInt(8))
quantum_ratio == Fdiv(FromInt(7), FromInt(18))

----------------------------------------------------------------------------
(* Thermodynamic functions                                                 *)

\* A discriminant with the quantum term 3*alpha/r^2 instead of 9*alpha/r^2:
\* its sign changes at sqrt(3*alpha), not at 3*sqrt(alpha).
discriminant_three_alpha(r_plus, lambda_param) ==
  Fadd(Fsub(FromInt(1), Fdiv(Fmul(FromInt(3), alpha_num), Fpow(r_plus, 2))),
       Fmul(Fmul(alpha_num, lambda_param), Fpow(r_plus, 2)))

discriminant(r_plus, lambda_param) ==
  Fadd(Fsub(FromInt(1), Fdiv(Fmul(FromInt(9), alpha_num), Fpow(r_plus, 2))),
       Fmul(Fmul(alpha_num, lambda_param), Fpow(r_plus, 2)))

\* A mass that rejects the boundary discriminant = 0 ("> 0" for ">= 0").
mass_quantum_strict(r_plus, lambda_param) ==
  LET d == discriminant(r_plus, lambda_param)
  IN  IF Fgt(d, Zero) /\ Fgt(r_plus, Zero)
        THEN Fmul(Fdiv(Fpow(r_plus, 3), Fmul(FromInt(3), alpha_num)),
                  Fsub(FromInt(1), Fsqrt(d)))
        ELSE NaN

mass_quantum(r_plus, lambda_param) ==
  LET d == discriminant(r_plus, lambda_param)
  IN  IF Fge(d, Zero) /\ Fgt(r_plus, Zero)
        THEN Fmul(Fdiv(Fpow(r_plus, 3), Fmul(FromInt(3), alpha_num)),
                  Fsub(FromInt(1), Fsqrt(d)))
        ELSE NaN

\* A temperature without the "r_plus > 0" test.
temperature_quantum_unguarded(r_plus, lambda_param) ==
  Fmul(Fdiv(FromInt(1), Fmul(FromInt(4), pi)),
       Fadd(Fsub(Fdiv(FromInt(1), Fpow(r_plus, 2)),
                 Fdiv(Fmul(FromInt(2), alpha_num), Fpow(r_plus, 5))),
            Fdiv(Fmul(lambda_param, r_plus), FromInt(3))))

temperature_quantum(r_plus, lambda_param) ==
  IF Fgt(r_plus, Zero)
    THEN Fmul(Fdiv(FromInt(1), Fmul(FromInt(4), pi)),
              Fadd(Fsub(Fdiv(FromInt(1), Fpow(r_plus, 2)),
                        Fdiv(Fmul(FromInt(2), alpha_num), Fpow(r_plus, 5))),
                   Fdiv(Fmul(lambda_param, r_plus), FromInt(3))))
    ELSE NaN

\* A pressure that also applies the discriminant test of mass_quantum.
pressure_quantum_discriminant_guard(r_plus, lambda_param) ==
  IF Fgt(r_plus, Zero) /\ Fge(discriminant(r_plus, lambda_param), Zero)
    THEN LET temp == temperature_quantum(r_plus, lambda_param)
         IN  Fsub(Fdiv(temp, Fmul(FromInt(2), r_plus)),
                  Fdiv(FromInt(1), Fmul(Fmul(FromInt(8), pi), Fpow(r_plus, 2))))
    ELSE NaN

pressure_quantum(r_plus, lambda_param) ==
  IF Fgt(r_plus, Zero)
    THEN LET temp == temperature_quantum(r_plus, lambda_param)
         IN  Fsub(Fdiv(temp, Fmul(FromInt(2), r_plus)),
                  Fdiv(FromInt(1), Fmul(Fmul(FromInt(8), pi), Fpow(r_plus, 2))))
    ELSE NaN

\* A Gibbs energy with a guard of its own: 0 where the mass is NaN.
gibbs_quantum_guarded(r_plus, lambda_param) ==
  LET mass == mass_quantum(r_plus, lambda_param)
      temp == temperature_quantum(r_plus, lambda_param)
      entropy == Fmul(pi, Fpow(r_plus, 2))
  IN  IF IsNaN(mass) THEN Zero ELSE Fsub(mass, Fmul(temp, entropy))

gibbs_quantum(r_plus, lambda_param) ==
  LET mass == mass_quantum(r_plus, lambda_param)
      temp == temperature_quantum(r_plus, lambda_param)
      entropy == Fmul(pi, Fpow(r_plus, 2))
  IN  Fsub(mass, Fmul(temp, entropy))

\* The two polynomials of the Joule-Thomson coefficient and its epsilon.
jt_numerator(r_plus, mass) ==
  Fadd(Fsub(Fsub(Fmul(Fmul(FromInt(4), mass), Fpow(r_plus, 5)),
                 Fmul(Fmul(Fmul(FromInt(30), alpha_num), Fpow(mass, 2)), Fpow(r_plus, 2))),
            Fmul(Fmul(FromInt(12), mass), Fpow(r_plus, 5))),
       Fmul(FromInt(2), Fpow(r_plus, 6)))

jt_denominator(r_plus, mass) ==
  Fadd(Fsub(Fmul(Fmul(FromInt(9), alpha_num), Fpow(mass, 2)),
            Fmul(Fmul(FromInt(9), mass), Fpow(r_plus, 3))),
       Fmul(FromInt(3), Fpow(r_plus, 4)))

jt_epsilon == Dec(1, -12)

\* A Joule-Thomson coefficient without the epsilon test on the denominator.
joule_thomson_coefficient_no_epsilon(r_plus, mass) ==
  LET numerator == jt_numerator(r_plus, mass)
      denominator == jt_denominator(r_plus, mass)
  IN  IF Fgt(r_plus, Zero) /\ Fgt(mass, Zero)
        THEN Fdiv(numerator, denominator)
        ELSE NaN

joule_thomson_coefficient(r_plus, mass) ==
  LET numerator == jt_numerator(r_plus, mass)
      denominator == jt_denominator(r_plus, mass)
  IN  IF Fgt(Fabs(denominator), jt_epsilon) /\ Fgt(r_plus, Zero) /\ Fgt(mass, Zero)
        THEN Fdiv(numerator, denominator)
        ELSE NaN

----------------------------------------------------------------------------
(* Sample grids                                                            *)

\* Element i (from 0) of np.linspace(start, stop, num): i * step + start
\* with step = (stop - start) / (num - 1), the last element set to stop.
linspace(start, stop, num, i) ==
  IF i = num - 1 THEN stop
  ELSE Fadd(Fmul(FromInt(i), Fdiv(Fsub(stop, start), FromInt(num - 1))), start)

\* Grid sizes (the num arguments of the np.linspace calls).
r_range_num == 1000
r_range_3d_num == 50
lambda_num == 20
inversion_num == 100
r_vals_num == 100

r_range(i) == linspace(FromInt(2), FromInt(10), r_range_num, i)
r_range_3d(j) == linspace(Dec(15, -1), FromInt(12), r_range_3d_num, j)
lambda_range(i) == linspace(Zero, Fdiv(lambda_ads, FromInt(2)), lambda_num, i)
inversion_pressures(i) == linspace(Zero, Dec(6, -2), inversion_num, i)
r_vals(i) == linspace(FromInt(2), FromInt(8), r_vals_num, i)

\* r_range as the array the plotting calls receive.
r_range_values == [n \in 1..r_range_num |-> r_range(n - 1)]

T_values == <<Dec(6, -1), Dec(8, -1), FromInt(1), Dec(12, -1), Dec(14, -1)>>
isotherm_tolerance == Dec(1, -3)

\* The files written by the five plt.savefig calls, in the order of the script.
FigureFiles ==
  <<"figure1_gibbs_enhanced.png", "figure2_pv_diagrams.png",
    "figure3_3d_phase_space.png", "figure4_joule_thomson.png",
    "figure5_critical_exponents.png">>

----------------------------------------------------------------------------
(* sorted(zip(volumes, pressures)): tuples compare on the first component  *)
(* that differs; the sort is stable.                                       *)

Zip(xs, ys) ==
  [n \in 1..(IF Len(xs) < Len(ys) THEN Len(xs) ELSE Len(ys)) |-> <<xs[n], ys[n]>>]

PairLt(a, b) == IF a[1] # b[1] THEN Flt(a[1], b[1]) ELSE Flt(a[2], b[2])

Sorted(s) ==
  LET n == Len(s)
      rank == [a \in 1..n |->
                Cardinality({b \in 1..n : \/ PairLt(s[b], s[a])
                                          \/ (~PairLt(s[a], s[b]) /\ b < a)})]
  IN  [q \in 1..n |-> s[CHOOSE a \in 1..n : rank[a] = q - 1]]

Column(s, c) == [n \in 1..Len(s) |-> s[n][c]]

----------------------------------------------------------------------------
(* The run of the script.  One action per top-level statement (or group of *)
(* plotting statements); a top-level for loop takes one action per         *)
(* iteration, a list comprehension is one statement.                       *)

VARIABLES
  pc,            \* the statement the script is at
  i, k,          \* loop positions: row or pressure index (from 0), isotherm (from 1)
  out,           \* console lines: [text, args], args the numbers formatted in
  saved,         \* files written by plt.savefig, in order
  curves,        \* what has been drawn on the current figure: [ax, x, y]
  gibbs_0, gibbs_lambda,
  T_iso, volumes, pressures,
  P_surf, T_surf,
  temperatures, mass_vals, jt_coeffs, r_valid,
  fn, arg_r, arg_l, arg_m, ret   \* one call of a function on chosen arguments

vars == <<pc, i, k, out, saved, curves, gibbs_0, gibbs_lambda, T_iso, volumes,
          pressures, P_surf, T_surf, temperatures, mass_vals, jt_coeffs, r_valid,
          fn, arg_r, arg_l, arg_m, ret>>

loopVars == <<i, k>>
fig1Vars == <<gibbs_0, gibbs_lambda>>
fig2Vars == <<T_iso, volumes, pressures>>
fig3Vars == <<P_surf, T_surf>>
fig4Vars == <<temperatures, mass_vals, jt_coeffs, r_valid>>
callVars == <<fn, arg_r, arg_l, arg_m, ret>>

Line(text) == [text |-> text, args |-> <<>>]
Curve(ax, x, y) == [ax |-> ax, x |-> x, y |-> y]

\* The elements of the set S of indices in ascending order: the order in
\* which a loop or a comprehension over the grid meets them.
InOrder(S) ==
  [q \in 1..Cardinality(S) |-> CHOOSE n \in S : Cardinality({x \in S : x < n}) = q - 1]

NoCall ==
  /\ fn = "none" /\ arg_r = Zero /\ arg_l = Zero /\ arg_m = Zero /\ ret = NaN

\* Nothing computed, drawn, printed or saved yet.
Fresh ==
  /\ i = 0 /\ k = 0
  /\ out = <<>> /\ saved = <<>> /\ curves = <<>>
  /\ gibbs_0 = <<>> /\ gibbs_lambda = <<>>
  /\ T_iso = Zero /\ volumes = <<>> /\ pressures = <<>>
  /\ P_surf = <<>> /\ T_surf = <<>>
  /\ temperatures = <<>> /\ mass_vals = <<>> /\ jt_coeffs = <<>> /\ r_valid = <<>>

Init ==
  /\ pc = "parameters"
  /\ Fresh
  /\ NoCall

\* Lines 40-48 and 82: the constants are printed.
PrintParameters ==
  /\ pc = "parameters"
  /\ out' = out \o
       << Line("=== LQG BLACK HOLE THERMODYNAMICS PARAMETERS ==="),
          [text |-> "Barbero-Immirzi parameter", args |-> <<gamma_num>>],
          [text |-> "Quantum correction", args |-> <<alpha_num>>],
          [text |-> "Critical pressure", args |-> <<pressure_critical>>],
          [text |-> "Critical temperature", args |-> <<temperature_critical>>],
          [text |-> "Critical ratio PcVc/Tc", args |-> <<critical_ratio>>],
          [text |-> "Classical ratio (3/8)", args |-> <<classical_ratio>>],
          [text |-> "Quantum ratio (7/18)", args |-> <<quantum_ratio>>],
          Line("=== GENERATING ENHANCED PLOTS ===") >>
  /\ pc' = "fig1_begin"
  /\ UNCHANGED <<loopVars, saved, curves, fig1Vars, fig2Vars, fig3Vars, fig4Vars, callVars>>

(* FIGURE 1 *)

\* Lines 85-86.
Fig1Begin ==
  /\ pc = "fig1_begin"
  /\ out' = Append(out, Line("Generating Figure 1"))
  /\ curves' = <<>>
  /\ pc' = "fig1_gibbs_0"
  /\ UNCHANGED <<loopVars, saved, fig1Vars, fig2Vars, fig3Vars, fig4Vars, callVars>>

\* Line 88.
Fig1Gibbs0 ==
  /\ pc = "fig1_gibbs_0"
  /\ gibbs_0' = [n \in 1..r_range_num |-> gibbs_quantum(r_range(n - 1), Zero)]
  /\ pc' = "fig1_gibbs_lambda"
  /\ UNCHANGED <<loopVars, out, saved, curves, gibbs_lambda, fig2Vars, fig3Vars, fig4Vars,
                 callVars>>

\* Line 89.
Fig1GibbsLambda ==
  /\ pc = "fig1_gibbs_lambda"
  /\ gibbs_lambda' =
       [n \in 1..r_range_num |-> gibbs_quantum(r_range(n - 1), Fdiv(lambda_ads, FromInt(2)))]
  /\ pc' = "fig1_plot"
  /\ UNCHANGED <<loopVars, out, saved, curves, gibbs_0, fig2Vars, fig3Vars, fig4Vars,
                 callVars>>

\* Lines 91-98.
Fig1Plot ==
  /\ pc = "fig1_plot"
  /\ curves' = curves \o << Curve("ax1", r_range_values, gibbs_0),
                            Curve("ax1", r_range_values, gibbs_lambda) >>
  /\ pc' = "fig1_save"
  /\ UNCHANGED <<loopVars, out, saved, fig1Vars, fig2Vars, fig3Vars, fig4Vars, callVars>>

\* Figure 1 left without writing its file.
Fig1SaveSkipped ==
  /\ pc = "fig1_save"
  /\ pc' = "fig2_begin"
  /\ UNCHANGED <<loopVars, out, saved, curves, fig1Vars, fig2Vars, fig3Vars, fig4Vars, callVars>>

\* Lines 99-100.
Fig1Save ==
  /\ pc = "fig1_save"
  /\ saved' = Append(saved, FigureFiles[1])
  /\ pc' = "fig2_begin"
  /\ UNCHANGED <<loopVars, out, curves, fig1Vars, fig2Vars, fig3Vars, fig4Vars, callVars>>

(* FIGURE 2 *)

\* Lines 103-108.
Fig2Begin ==
  /\ pc = "fig2_begin"
  /\ out' = Append(out, Line("Generating Figure 2"))
  /\ curves' = <<>>
  /\ k' = 1
  /\ pc' = "fig2_scan"
  /\ UNCHANGED <<i, saved, fig1Vars, fig2Vars, fig3Vars, fig4Vars, callVars>>

\* A scan test with a tolerance of 0.0001 for 0.001.
isotherm_match_tight(r, t) ==
  /\ Fgt(temperature_quantum(r, Zero), Zero)
  /\ Flt(Fabs(Fsub(temperature_quantum(r, Zero), t)), Dec(1, -4))

\* Lines 116-118: whether the scan of isotherm t keeps the sample r.
isotherm_match(r, t) ==
  /\ Fgt(temperature_quantum(r, Zero), Zero)
  /\ Flt(Fabs(Fsub(temperature_quantum(r, Zero), t)), isotherm_tolerance)

\* Lines 110-120: the scan of r_range for isotherm k, or the end of the loop.
Fig2Scan ==
  /\ pc = "fig2_scan"
  /\ IF k <= Len(T_values)
       THEN \E t \in {Fmul(T_values[k], temperature_critical)} :
            \E kept \in {UNION {IF isotherm_match(r_range(n), t) THEN {n} ELSE {} :
                                  n \in 0..(r_range_num - 1)}} :
              /\ T_iso' = t
              /\ volumes' = [q \in 1..Cardinality(kept) |->
                               Fmul(FromInt(2), r_range(InOrder(kept)[q]))]
              /\ pressures' = [q \in 1..Cardinality(kept) |->
                                 pressure_quantum(r_range(InOrder(kept)[q]), Zero)]
              /\ pc' = "fig2_plot"
       ELSE /\ pc' = "fig2_critical_point"
            /\ UNCHANGED fig2Vars
  /\ UNCHANGED <<loopVars, out, saved, curves, fig1Vars, fig3Vars, fig4Vars, callVars>>

\* Lines 122-125.
Fig2Plot ==
  /\ pc = "fig2_plot"
  /\ IF volumes # <<>>
       THEN LET pairs == Sorted(Zip(volumes, pressures))
            IN  /\ volumes' = Column(pairs, 1)
                /\ pressures' = Column(pairs, 2)
                /\ curves' = Append(curves, Curve("ax2", Column(pairs, 1), Column(pairs, 2)))
       ELSE UNCHANGED <<volumes, pressures, curves>>
  /\ k' = k + 1
  /\ pc' = "fig2_scan"
  /\ UNCHANGED <<i, out, saved, fig1Vars, T_iso, fig3Vars, fig4Vars, callVars>>

\* Lines 127-139: the critical point is drawn.
Fig2CriticalPoint ==
  /\ pc = "fig2_critical_point"
  /\ curves' = Append(curves, Curve("ax2", <<volume_critical>>, <<pressure_critical>>))
  /\ pc' = "fig2_save"
  /\ UNCHANGED <<loopVars, out, saved, fig1Vars, fig2Vars, fig3Vars, fig4Vars, callVars>>

\* Lines 140-141.
Fig2Save ==
  /\ pc = "fig2_save"
  /\ saved' = Append(saved, FigureFiles[2])
  /\ pc' = "fig3_begin"
  /\ UNCHANGED <<loopVars, out, curves, fig1Vars, fig2Vars, fig3Vars, fig4Vars, callVars>>

(* FIGURE 3 *)

\* Lines 144-152: the meshgrid; P_surf and T_surf start as zeros of its shape.
Fig3Begin ==
  /\ pc = "fig3_begin"
  /\ out' = Append(out, Line("Generating Figure 3"))
  /\ curves' = <<>>
  /\ P_surf' = [a \in 1..lambda_num |-> [b \in 1..r_range_3d_num |-> Zero]]
  /\ T_surf' = [a \in 1..lambda_num |-> [b \in 1..r_range_3d_num |-> Zero]]
  /\ i' = 0
  /\ pc' = "fig3_fill"
  /\ UNCHANGED <<k, saved, fig1Vars, fig2Vars, fig4Vars, callVars>>

\* Lines 154-157, row i: R[i, j] = r_range_3d[j], L[i, j] = lambda_range[i].
Fig3Fill ==
  /\ pc = "fig3_fill"
  /\ i < lambda_num
  /\ P_surf' = [P_surf EXCEPT ![i + 1] =
                  [b \in 1..r_range_3d_num |->
                     pressure_quantum(r_range_3d(b - 1), lambda_range(i))]]
  /\ T_surf' = [T_surf EXCEPT ![i + 1] =
                  [b \in 1..r_range_3d_num |->
                     temperature_quantum(r_range_3d(b - 1), lambda_range(i))]]
  /\ i' = (IF i + 1 < lambda_num THEN i + 1 ELSE 0)
  /\ pc' = (IF i + 1 < lambda_num THEN pc ELSE "fig3_plot")
  /\ UNCHANGED <<k, out, saved, curves, fig1Vars, fig2Vars, fig4Vars, callVars>>

\* Lines 159-175: the surface (drawn from V_surf, P_surf, T_surf; the record
\* keeps the first row of each) and the critical point.
Fig3Plot ==
  /\ pc = "fig3_plot"
  /\ curves' = curves \o << Curve("ax3", P_surf[1], T_surf[1]),
                            Curve("ax3", <<pressure_critical>>, <<temperature_critical>>) >>
  /\ pc' = "fig3_save"
  /\ UNCHANGED <<loopVars, out, saved, fig1Vars, fig2Vars, fig3Vars, fig4Vars, callVars>>

\* Lines 176-177.
Fig3Save ==
  /\ pc = "fig3_save"
  /\ saved' = Append(saved, FigureFiles[3])
  /\ pc' = "fig4_begin"
  /\ UNCHANGED <<loopVars, out, curves, fig1Vars, fig2Vars, fig3Vars, fig4Vars, callVars>>

(* FIGURE 4 *)

\* Lines 180-194: pressures is rebound to the grid of the inversion curve.
Fig4Begin ==
  /\ pc = "fig4_begin"
  /\ out' = Append(out, Line("Generating Figure 4"))
  /\ curves' = <<>>
  /\ pressures' = [n \in 1..inversion_num |-> inversion_pressures(n - 1)]
  /\ temperatures' = <<>>
  /\ i' = 0
  /\ pc' = "fig4_inversion"
  /\ UNCHANGED <<k, saved, fig1Vars, T_iso, volumes, fig3Vars, mass_vals, jt_coeffs,
                 r_valid, callVars>>

\* Lines 196-199, one pressure.
Fig4Inversion ==
  /\ pc = "fig4_inversion"
  /\ i < inversion_num
  /\ temperatures' =
       Append(temperatures,
              Fmul(temperature_critical,
                   Fadd(FromInt(1),
                        Fdiv(Fmul(FromInt(2), pressures[i + 1]), pressure_critical))))
  /\ i' = (IF i + 1 < inversion_num THEN i + 1 ELSE 0)
  /\ pc' = (IF i + 1 < inversion_num THEN pc ELSE "fig4_plot_inversion")
  /\ UNCHANGED <<k, out, saved, curves, fig1Vars, fig2Vars, fig3Vars, mass_vals,
                 jt_coeffs, r_valid, callVars>>

\* Lines 201-208.
Fig4PlotInversion ==
  /\ pc = "fig4_plot_inversion"
  /\ curves' = curves \o << Curve("ax4a", pressures, temperatures),
                            Curve("ax4a", <<pressure_critical>>, <<temperature_critical>>) >>
  /\ pc' = "fig4_mass_vals"
  /\ UNCHANGED <<loopVars, out, saved, fig1Vars, fig2Vars, fig3Vars, fig4Vars, callVars>>

\* Lines 211-212.
Fig4MassVals ==
  /\ pc = "fig4_mass_vals"
  /\ mass_vals' = [n \in 1..r_vals_num |-> mass_quantum(r_vals(n - 1), Zero)]
  /\ pc' = "fig4_jt_coeffs"
  /\ UNCHANGED <<loopVars, out, saved, curves, fig1Vars, fig2Vars, fig3Vars, temperatures,
                 jt_coeffs, r_valid, callVars>>

\* The pairs of zip(r_vals, mass_vals) that pass "if not np.isnan(m)", as
\* positions of mass_vals in order.
NotNaNMass == InOrder({n \in 1..Len(mass_vals) : ~IsNaN(mass_vals[n])})

\* Line 213.
Fig4JtCoeffs ==
  /\ pc = "fig4_jt_coeffs"
  /\ jt_coeffs' = [q \in 1..Len(NotNaNMass) |->
                     joule_thomson_coefficient(r_vals(NotNaNMass[q] - 1),
                                               mass_vals[NotNaNMass[q]])]
  /\ pc' = "fig4_r_valid"
  /\ UNCHANGED <<loopVars, out, saved, curves, fig1Vars, fig2Vars, fig3Vars, temperatures,
                 mass_vals, r_valid, callVars>>

\* An r_valid that keeps every sample of r_vals, NaN mass or not.
Fig4RValidUnfiltered ==
  /\ pc = "fig4_r_valid"
  /\ r_valid' = [q \in 1..r_vals_num |-> r_vals(q - 1)]
  /\ pc' = "fig4_plot_coeffs"
  /\ UNCHANGED <<loopVars, out, saved, curves, fig1Vars, fig2Vars, fig3Vars, temperatures,
                 mass_vals, jt_coeffs, callVars>>

\* Line 214.
Fig4RValid ==
  /\ pc = "fig4_r_valid"
  /\ r_valid' = [q \in 1..Len(NotNaNMass) |-> r_vals(NotNaNMass[q] - 1)]
  /\ pc' = "fig4_plot_coeffs"
  /\ UNCHANGED <<loopVars, out, saved, curves, fig1Vars, fig2Vars, fig3Vars, temperatures,
                 mass_vals, jt_coeffs, callVars>>

\* Lines 216-225.
Fig4PlotCoeffs ==
  /\ pc = "fig4_plot_coeffs"
  /\ curves' = (IF jt_coeffs # <<>>
                  THEN Append(curves, Curve("ax4b", r_valid, jt_coeffs))
                  ELSE curves)
  /\ pc' = "fig4_save"
  /\ UNCHANGED <<loopVars, out, saved, fig1Vars, fig2Vars, fig3Vars, fig4Vars, callVars>>

\* Lines 226-227.
Fig4Save ==
  /\ pc = "fig4_save"
  /\ saved' = Append(saved, FigureFiles[4])
  /\ pc' = "fig5_begin"
  /\ UNCHANGED <<loopVars, out, curves, fig1Vars, fig2Vars, fig3Vars, fig4Vars, callVars>>

(* FIGURE 5: the four scaling curves are vectorised library calls; the      *)
(* model keeps which axes were drawn on, not the samples.                   *)

\* Lines 230-231.
Fig5Begin ==
  /\ pc = "fig5_begin"
  /\ out' = Append(out, Line("Generating Figure 5"))
  /\ curves' = <<>>
  /\ pc' = "fig5_plot"
  /\ UNCHANGED <<loopVars, saved, fig1Vars, fig2Vars, fig3Vars, fig4Vars, callVars>>

\* Lines 233-278.
Fig5Plot ==
  /\ pc = "fig5_plot"
  /\ curves' = curves \o << Curve("ax5a", <<>>, <<>>), Curve("ax5a", <<>>, <<>>),
                            Curve("ax5b", <<>>, <<>>), Curve("ax5c", <<>>, <<>>),
                            Curve("ax5d", <<>>, <<>>) >>
  /\ pc' = "fig5_save"
  /\ UNCHANGED <<loopVars, out, saved, fig1Vars, fig2Vars, fig3Vars, fig4Vars, callVars>>

\* Lines 279-280.
Fig5Save ==
  /\ pc = "fig5_save"
  /\ saved' = Append(saved, FigureFiles[5])
  /\ pc' = "complete"
  /\ UNCHANGED <<loopVars, out, curves, fig1Vars, fig2Vars, fig3Vars, fig4Vars, callVars>>

\* Lines 282-289.
PrintComplete ==
  /\ pc = "complete"
  /\ out' = Append(out, Line("=== PLOT GENERATION COMPLETE ==="))
  /\ pc' = "done"
  /\ UNCHANGED <<loopVars, saved, curves, fig1Vars, fig2Vars, fig3Vars, fig4Vars, callVars>>

Next ==
  \/ PrintParameters
  \/ Fig1Begin \/ Fig1Gibbs0 \/ Fig1GibbsLambda \/ Fig1Plot \/ Fig1Save
  \/ Fig2Begin \/ Fig2Scan \/ Fig2Plot \/ Fig2CriticalPoint \/ Fig2Save
  \/ Fig3Begin \/ Fig3Fill \/ Fig3Plot \/ Fig3Save
  \/ Fig4Begin \/ Fig4Inversion \/ Fig4PlotInversion \/ Fig4MassVals \/ Fig4JtCoeffs
  \/ Fig4RValid \/ Fig4PlotCoeffs \/ Fig4Save
  \/ Fig5Begin \/ Fig5Plot \/ Fig5Save
  \/ PrintComplete

Spec == Init /\ [][Next]_vars

----------------------------------------------------------------------------
(* The functions called on arguments outside the script's grids            *)

\* Arguments: radii -MaxRHalves/2 .. MaxRHalves/2 in steps of 1/2, Lambda
\* -MaxLQuarters/4 .. MaxLQuarters/4 in steps of 1/4, masses
\* -MaxMHalves/2 .. MaxMHalves/2 in steps of 1/2.
MaxRHalves == 24
MaxLQuarters == 8
MaxMHalves == 6

\* A radius at which the discriminant is exactly 0 for Lambda = 0, and a mass
\* at which the Joule-Thomson denominator is exactly 0 for r = 2.
RBoundary == Dec(324, -2)
MBoundary == Dec(7483, -4)

RArgs == {Dec(5 * n, -1) : n \in -MaxRHalves..MaxRHalves} \cup {RBoundary}
LArgs == {Dec(25 * n, -2) : n \in -MaxLQuarters..MaxLQuarters}
           \cup {Fdiv(lambda_ads, FromInt(2))}
MArgs == {Dec(5 * n, -1) : n \in -MaxMHalves..MaxMHalves} \cup {MBoundary}

InitCall ==
  /\ pc = "call"
  /\ Fresh
  /\ fn = "none" /\ ret = NaN
  /\ arg_r \in RArgs
  /\ arg_l \in LArgs
  /\ arg_m \in MArgs

\* The call returns: nothing else changes.
Returns ==
  /\ pc' = "returned"
  /\ UNCHANGED <<loopVars, out, saved, curves, fig1Vars, fig2Vars, fig3Vars, fig4Vars,
                 arg_r, arg_l, arg_m>>

CallMass ==
  /\ pc = "call"
  /\ fn' = "mass_quantum"
  /\ ret' = mass_quantum(arg_r, arg_l)
  /\ Returns

CallTemperature ==
  /\ pc = "call"
  /\ fn' = "temperature_quantum"
  /\ ret' = temperature_quantum(arg_r, arg_l)
  /\ Returns

CallPressure ==
  /\ pc = "call"
  /\ fn' = "pressure_quantum"
  /\ ret' = pressure_quantum(arg_r, arg_l)
  /\ Returns

CallGibbs ==
  /\ pc = "call"
  /\ fn' = "gibbs_quantum"
  /\ ret' = gibbs_quantum(arg_r, arg_l)
  /\ Returns

CallJouleThomson ==
  /\ pc = "call"
  /\ fn' = "joule_thomson_coefficient"
  /\ ret' = joule_thomson_coefficient(arg_r, arg_m)
  /\ Returns

NextCall ==
  \/ CallMass
  \/ CallTemperature
  \/ CallPressure
  \/ CallGibbs
  \/ CallJouleThomson

SpecCall == InitCall /\ [][NextCall]_vars

\* The run of the script, or one call.
SpecAll == (Init \/ InitCall) /\ [][Next \/ NextCall]_vars

----------------------------------------------------------------------------
(* Properties                                                              *)

Returned(name) == pc = "returned" /\ fn = name

\* C1: for every horizon radius r <= 0 (r = 0 included) and every Lambda,
\* mass_quantum, temperature_quantum, pressure_quantum and gibbs_quantum
\* each return NaN.
C1_NonPositiveRadiusIsNaN ==
  (/\ pc = "returned"
   /\ fn \in {"mass_quantum", "temperature_quantum", "pressure_quantum", "gibbs_quantum"}
   /\ Fle(arg_r, Zero))
    => IsNaN(ret)

\* C1 witness: mass_quantum returned NaN for a negative radius whose
\* discriminant is non-negative (only the radius guard rejects it).
C1_Witness ==
  /\ Returned("mass_quantum")
  /\ Flt(arg_r, Zero)
  /\ Fge(discriminant(arg_r, arg_l), Zero)
  /\ IsNaN(ret)

C6_Original ==
  Returned("joule_thomson_coefficient") =>
    IF Fgt(Fabs(jt_denominator(arg_r, arg_m)), Dec(1, -12))
      THEN ret = Fdiv(jt_numerator(arg_r, arg_m), jt_denominator(arg_r, arg_m))
      ELSE IsNaN(ret)

\* C6 amended: joule_thomson_coefficient(r, m) is numerator/denominator
\* exactly when the denominator magnitude is above 1e-12 and r > 0 and m > 0;
\* in every other case (denominator within the epsilon, r <= 0, or m <= 0) it
\* is NaN.
C6_RatioOnlyOnGuardedDomain ==
  Returned("joule_thomson_coefficient") =>
    IF /\ Fgt(Fabs(jt_denominator(arg_r, arg_m)), Dec(1, -12))
       /\ Fgt(arg_r, Zero)
       /\ Fgt(arg_m, Zero)
      THEN /\ ret = Fdiv(jt_numerator(arg_r, arg_m), jt_denominator(arg_r, arg_m))
           /\ ~IsNaN(ret)
      ELSE IsNaN(ret)

\* C6 witness: r > 0 and m > 0, the denominator is within the epsilon, the
\* numerator is not zero, and the call returned NaN.
C6_Witness ==
  /\ Returned("joule_thomson_coefficient")
  /\ Fgt(arg_r, Zero) /\ Fgt(arg_m, Zero)
  /\ ~Fgt(Fabs(jt_denominator(arg_r, arg_m)), Dec(1, -12))
  /\ jt_numerator(arg_r, arg_m) # Zero
  /\ IsNaN(ret)

\* The sequence s as a set, and the set of its indices.
Range(s) == {s[n] : n \in 1..Len(s)}

\* C2 as stated: the Lambda = 0 Gibbs array of figure 1 contains no NaN
\* entry over the whole grid r_range = linspace(2, 10, 1000).
C2_Original ==
  \A n \in 1..Len(gibbs_0) : ~IsNaN(gibbs_0[n])

\* C2 amended: in the Lambda = 0 Gibbs array of figure 1 the entry of sample
\* r is NaN exactly when r < 3*sqrt(alpha) (about 3.24, where the discriminant
\* 1 - 9*alpha/r^2 changes sign): the samples of [2, 3.24) are NaN and no
\* sample of [3.24, 10] is.
C2_GibbsNaNExactlyBelowThreshold ==
  pc = "fig1_save" =>
    /\ Len(gibbs_0) = r_range_num
    /\ \A n \in 1..r_range_num :
         IsNaN(gibbs_0[n]) <=>
           Flt(r_range(n - 1), Fmul(FromInt(3), Fsqrt(alpha_num)))

\* C2 witness: the array is complete, its first 155 entries (r from 2 up to
\* 3.233) are NaN and its last entry (r = 10) is a number.
C2_Witness ==
  /\ pc = "fig1_save"
  /\ Len(gibbs_0) = 1000
  /\ \A n \in 1..155 : IsNaN(gibbs_0[n])
  /\ IsNum(gibbs_0[156])
  /\ IsNum(gibbs_0[1000])

\* C3: the critical ratio pressure_critical * volume_critical /
\* temperature_critical printed by the script equals 7/18, the value printed
\* as the quantum ratio (to the precision of the arithmetic).
C3_CriticalRatioIsSevenEighteenths ==
  \A n \in 1..Len(out) :
    out[n].text = "Critical ratio PcVc/Tc" =>
      Fle(Fabs(Fsub(out[n].args[1], Fdiv(FromInt(7), FromInt(18)))), Dec(1, -3))

\* C7: each Gibbs curve of figure 1 (Lambda = 0 and Lambda = lambda_ads/2) is
\* drawn from an array with one entry per sample of r_range, in grid order,
\* and the entry of sample r is NaN if and only if mass_quantum(r, Lambda) is
\* NaN; a number entry is mass - T * pi * r^2.
C7_GibbsNaNIffMassNaN ==
  pc = "fig1_save" =>
    /\ Len(curves) = 2
    /\ curves[1].y = gibbs_0
    /\ curves[2].y = gibbs_lambda
    /\ \A c \in 1..2 :
         LET Lambda == IF c = 1 THEN Zero ELSE Fdiv(lambda_ads, FromInt(2))
         IN  /\ Len(curves[c].x) = r_range_num
             /\ Len(curves[c].y) = r_range_num
             /\ \A n \in 1..r_range_num :
                  LET r == r_range(n - 1)
                      mass == mass_quantum(r, Lambda)
                  IN  /\ curves[c].x[n] = r
                      /\ IsNaN(curves[c].y[n]) <=> IsNaN(mass)
                      /\ ~IsNaN(mass) =>
                           curves[c].y[n] =
                             Fsub(mass, Fmul(temperature_quantum(r, Lambda),
                                             Fmul(pi, Fpow(r, 2))))

\* C7 witness: both curves are drawn; the Lambda = 0 curve has NaN entries
\* and number entries, the Lambda = lambda_ads/2 curve is NaN throughout.
C7_Witness ==
  /\ pc = "fig1_save"
  /\ Len(curves) = 2
  /\ \E n \in 1..Len(curves[1].y) : IsNaN(curves[1].y[n])
  /\ \E n \in 1..Len(curves[1].y) : IsNum(curves[1].y[n])
  /\ \A n \in 1..Len(curves[2].y) : IsNaN(curves[2].y[n])
  /\ Len(curves[2].y) = 1000

\* The statements of each figure's section, from its first to its savefig.
FigurePcs ==
  << {"fig1_begin", "fig1_gibbs_0", "fig1_gibbs_lambda", "fig1_plot", "fig1_save"},
     {"fig2_begin", "fig2_scan", "fig2_plot", "fig2_critical_point", "fig2_save"},
     {"fig3_begin", "fig3_fill", "fig3_plot", "fig3_save"},
     {"fig4_begin", "fig4_inversion", "fig4_plot_inversion", "fig4_mass_vals",
      "fig4_jt_coeffs", "fig4_r_valid", "fig4_plot_coeffs", "fig4_save"},
     {"fig5_begin", "fig5_plot", "fig5_save"} >>

\* The axes of each figure.
FigureAxes ==
  << {"ax1"}, {"ax2"}, {"ax3"}, {"ax4a", "ax4b"}, {"ax5a", "ax5b", "ax5c", "ax5d"} >>

Printed(text) == \E n \in 1..Len(out) : out[n].text = text

\* C5: the run writes the five image files, each once and in the fixed order
\* figure1 .. figure5; nothing of figure f+1 is announced, computed or drawn
\* before figure f has been saved; 'PLOT GENERATION COMPLETE' is printed only
\* after all five files have been saved.
C5_FiguresSavedInOrder ==
  /\ Len(saved) <= Len(FigureFiles)
  /\ saved = SubSeq(FigureFiles, 1, Len(saved))
  /\ \A f \in 1..Len(FigureFiles) :
       /\ pc \in FigurePcs[f] => Len(saved) = f - 1
       /\ (\E n \in 1..Len(curves) : curves[n].ax \in FigureAxes[f]) => Len(saved) >= f - 1
  /\ Printed("Generating Figure 2") => Len(saved) >= 1
  /\ Printed("Generating Figure 3") => Len(saved) >= 2
  /\ Printed("Generating Figure 4") => Len(saved) >= 3
  /\ Printed("Generating Figure 5") => Len(saved) >= 4
  /\ (T_iso # Zero \/ volumes # <<>> \/ pressures # <<>>) => Len(saved) >= 1
  /\ (P_surf # <<>> \/ T_surf # <<>>) => Len(saved) >= 2
  /\ (temperatures # <<>> \/ mass_vals # <<>> \/ jt_coeffs # <<>> \/ r_valid # <<>>)
       => Len(saved) >= 3
  /\ (pc \in {"complete", "done"} \/ Printed("=== PLOT GENERATION COMPLETE ==="))
       => saved = FigureFiles

\* C5 witness: the run is over, the five files were saved in order and the
\* completion message is the last line printed.
C5_Witness ==
  /\ pc = "done"
  /\ saved = FigureFiles
  /\ out[Len(out)].text = "=== PLOT GENERATION COMPLETE ==="

\* The samples of r_range that the scan of isotherm t keeps (indices from 0).
Matching(t) ==
  UNION {IF /\ Fgt(temperature_quantum(r_range(n), Zero), Zero)
            /\ Flt(Fabs(Fsub(temperature_quantum(r_range(n), Zero), t)), Dec(1, -3))
           THEN {n} ELSE {} : n \in 0..(r_range_num - 1)}

\* Every pair (xs[q], ys[q]) is (2r, pressure_quantum(r)) of a sample r that
\* matches isotherm t.
PairsOfMatching(xs, ys, t) ==
  LET M == Matching(t)
  IN  \A q \in 1..Len(xs) :
        \E n \in M :
          /\ xs[q] = Fmul(FromInt(2), r_range(n))
          /\ ys[q] = pressure_quantum(r_range(n), Zero)

Ascending(xs) == \A q \in 1..(Len(xs) - 1) : Flt(xs[q], xs[q + 1])

\* C9: for each isotherm T_iso = T_ratio * temperature_critical the scan over
\* r_range collects exactly the samples with temperature_quantum(r) > 0 and
\* |temperature_quantum(r) - T_iso| < 0.001 as pairs (2r, pressure_quantum(r));
\* volumes and pressures have equal length; the curve drawn is those pairs by
\* ascending volume, each pressure with its own volume; an isotherm with no
\* matching sample draws no curve.
C9_IsothermScan ==
  /\ pc = "fig2_plot" =>
       /\ T_iso = Fmul(T_values[k], temperature_critical)
       /\ Len(volumes) = Len(pressures)
       /\ Len(volumes) = Cardinality(Matching(T_iso))
       /\ Ascending(volumes)
       /\ PairsOfMatching(volumes, pressures, T_iso)
  /\ (pc = "fig2_scan" /\ k > 1) =>
       /\ Len(volumes) = Len(pressures)
       /\ Len(curves) =
            Cardinality({h \in 1..(k - 1) :
                           Matching(Fmul(T_values[h], temperature_critical)) # {}})
       /\ Matching(T_iso) # {} =>
            LET c == curves[Len(curves)]
            IN  /\ c.ax = "ax2"
                /\ Len(c.x) = Cardinality(Matching(T_iso))
                /\ Len(c.y) = Len(c.x)
                /\ Ascending(c.x)
                /\ PairsOfMatching(c.x, c.y, T_iso)

\* C9 witness: the last isotherm (1.4 Tc) has been scanned and drawn; its 17
\* matching samples are the curve, the fifth of the figure.
C9_Witness ==
  /\ pc = "fig2_scan"
  /\ k = 6
  /\ Len(curves) = 5
  /\ Len(curves[5].x) = 17
  /\ curves[5].x[1] = FromInt(4)
  /\ curves[5].y[1] = pressure_quantum(FromInt(2), Zero)

\* The samples of r_vals whose mass is not NaN (indices from 0).
ValidMass ==
  UNION {IF ~IsNaN(mass_quantum(r_vals(n), Zero)) THEN {n} ELSE {} :
           n \in 0..(r_vals_num - 1)}

\* C10: in the Joule-Thomson coefficient plot r_valid and jt_coeffs have the
\* same length and are index-aligned: in grid order, exactly the samples r of
\* linspace(2, 8, 100) whose mass_quantum(r) is not NaN, with jt_coeffs[q] =
\* joule_thomson_coefficient(r_valid[q], mass_quantum(r_valid[q])); a sample
\* with NaN mass is in neither array; the curve is drawn only when a sample
\* remains.
C10_JouleThomsonArraysAligned ==
  /\ pc \in {"fig4_plot_coeffs", "fig4_save"} =>
       LET V == ValidMass
       IN  /\ Len(mass_vals) = r_vals_num
           /\ Len(r_valid) = Cardinality(V)
           /\ Len(jt_coeffs) = Len(r_valid)
           /\ Ascending(r_valid)
           /\ \A q \in 1..Len(r_valid) :
                /\ \E n \in V : r_valid[q] = r_vals(n)
                /\ jt_coeffs[q] =
                     joule_thomson_coefficient(r_valid[q], mass_quantum(r_valid[q], Zero))
           /\ \A n \in 0..(r_vals_num - 1) :
                n \notin V => r_vals(n) \notin Range(r_valid)
  /\ pc = "fig4_save" =>
       /\ (\E n \in 1..Len(curves) : curves[n].ax = "ax4b") <=> jt_coeffs # <<>>
       /\ \A n \in 1..Len(curves) :
            curves[n].ax = "ax4b" => curves[n].x = r_valid /\ curves[n].y = jt_coeffs

\* C10 witness: 21 of the 100 samples have a NaN mass, the other 79 are the
\* two arrays, and the curve has been drawn from them.
C10_Witness ==
  /\ pc = "fig4_save"
  /\ IsNaN(mass_vals[1])
  /\ Len(r_valid) = 79
  /\ Len(jt_coeffs) = 79
  /\ r_valid[79] = FromInt(8)
  /\ \E n \in 1..Len(curves) : curves[n].ax = "ax4b" /\ Len(curves[n].y) = 79

====
